---------------------------- MODULE Spec2Model ----------------------------
(***************************************************************************)
(* State-machine model of the bulk rename / resize wizard of src/src/App.jsx *)
(* (the App component, its screens and its asynchronous handlers).           *)
(*                                                                           *)
(* Strings that the program builds or inspects (industry code, submission   *)
(* id, date, start sequence, file names of archive entries) are sequences   *)
(* of one-character strings, so that template literals are concatenations   *)
(* and padStart, parseInt and String act on characters.  A JavaScript       *)
(* Number holding a non-negative integer is the sequence of its decimal     *)
(* digits (most significant first, no leading zero), rounded to the         *)
(* nearest IEEE-754 double as the language does; NaN is the value NaN.      *)
(*                                                                           *)
(* One action is one run-to-completion step of the event loop: a user       *)
(* event handler, a timer callback, or the continuation of an async         *)
(* handler after the promise it awaited has settled.                         *)
(***************************************************************************)
EXTENDS Integers, Sequences, FiniteSets, TLC

(***************************************************************************)
(* Bounds of the exploration.                                              *)
(***************************************************************************)
\* source sizes handed to resizeWithPadding: up to MaxScale times the target
\* size, and up to MaxOffset pixels off such a multiple
MaxScale == 4
MaxOffset == 4
\* files offered to one drop that the dropzone accepts
MaxAccepted == 2
\* files of one drop that the dropzone rejects
MaxRejected == 1
\* ingestions (drops that start handleFilesAccepted) in one run
MaxIngests == 2
\* expiry timers of handleFileErrors pending at the same time
MaxTimers == 2
\* how many entries of INITIAL_INDUSTRY_CODES the user picks from
MaxCodeChoice == 1
\* the largest width and height of a raster given to createThumbnail
MaxThumbSide == 400
\* addDoc calls of handleDownload pending at the same time
MaxPendingLogs == 2

(***************************************************************************)
(* Program constants.                                                      *)
(***************************************************************************)
RESIZE_WIDTH == 600
RESIZE_HEIGHT == 400
MAX_FILES == 50
DEFAULT_QUALITY == 9
PAD_WIDTH == 2
\* the telemetry switch, and the developer mode a session starts without
isLogSendingEnabled == TRUE
isDevMode == FALSE

INITIAL_INDUSTRY_CODES ==
    << <<"h","o","s">>, <<"h","t","l">>, <<"s","a","l">>,
       <<"t","r","a">>, <<"c","a","f">>, <<"r","u","n">> >>

\* the absent archive (zipBlob before generateAsync has resolved)
NULL == [type |-> "null"]
\* the Number NaN: a digit sequence that is no integer
NaN == << -1 >>

(***************************************************************************)
(* Characters and digits.                                                  *)
(***************************************************************************)
DigitChars == <<"0","1","2","3","4","5","6","7","8","9">>

IsDigit(c) == \E d \in 1..10 : DigitChars[d] = c

DigitVal(c) == (CHOOSE d \in 1..10 : DigitChars[d] = c) - 1

DigitChar(d) == DigitChars[d + 1]

\* /^\d+$/.test(s)
AllDigits(s) == Len(s) >= 1 /\ \A k \in 1..Len(s) : IsDigit(s[k])

\* /^\d{8}$/.test(s)
EightDigits(s) == Len(s) = 8 /\ \A k \in 1..Len(s) : IsDigit(s[k])

(***************************************************************************)
(* Numbers: exact decimal arithmetic and rounding to a double.             *)
(***************************************************************************)
\* 2^53: from here on consecutive integers are no longer all representable
TwoPow53 == <<9,0,0,7,1,9,9,2,5,4,7,4,0,9,9,2>>

RECURSIVE StripZeros(_)
StripZeros(d) ==
    IF Len(d) <= 1 THEN d
    ELSE IF d[1] = 0 THEN StripZeros(Tail(d)) ELSE d

\* a < b for digit sequences without leading zeros
RECURSIVE BigLess(_, _)
BigLess(a, b) ==
    IF Len(a) # Len(b) THEN Len(a) < Len(b)
    ELSE IF Len(a) = 0 THEN FALSE
    ELSE IF a[1] # b[1] THEN a[1] < b[1]
    ELSE BigLess(Tail(a), Tail(b))

\* the exact sum d + c, c a small natural
RECURSIVE BigAdd(_, _)
BigAdd(d, c) ==
    IF Len(d) = 0
    THEN IF c = 0 THEN <<>>
         ELSE BigAdd(<<>>, c \div 10) \o <<c % 10>>
    ELSE LET s == d[Len(d)] + c
         IN  BigAdd(SubSeq(d, 1, Len(d) - 1), s \div 10) \o <<s % 10>>

Mod4(d) ==
    IF Len(d) = 1 THEN d[1] % 4
    ELSE (10 * d[Len(d) - 1] + d[Len(d)]) % 4

\* Round an exact integer below 2^54 to the nearest double, ties to the even
\* significand: integers below 2^53 are exact; in [2^53, 2^54) the doubles are
\* the even integers and a tie goes to the multiple of 4.
RoundToDouble(x) ==
    IF BigLess(x, TwoPow53) THEN x
    ELSE IF x[Len(x)] % 2 = 0 THEN x
    ELSE IF Mod4(BigAdd(x, 1)) = 0 THEN BigAdd(x, 1)
    ELSE [x EXCEPT ![Len(x)] = @ - 1]

\* parseInt(s, 10) for a string the form has stripped of non-digits
ParseInt(s) ==
    IF Len(s) = 0 THEN NaN
    ELSE RoundToDouble(StripZeros([k \in 1..Len(s) |-> DigitVal(s[k])]))

\* x || 1 : NaN and 0 are falsy
OrOne(x) == IF x = NaN \/ x = <<0>> THEN <<1>> ELSE x

\* i + n on Numbers, i a small index
JsAdd(i, n) == RoundToDouble(BigAdd(n, i))

\* String(n) for an integer n below 10^21
String(n) == [k \in 1..Len(n) |-> DigitChar(n[k])]

\* a padStart that also cuts to the width, as slice(-width) would
RECURSIVE PadStart_Truncating(_, _, _)
PadStart_Truncating(s, width, c) ==
    IF Len(s) > width THEN SubSeq(s, Len(s) - width + 1, Len(s))
    ELSE IF Len(s) = width THEN s
    ELSE PadStart_Truncating(<<c>> \o s, width, c)

\* String.prototype.padStart(width, c) with a one-character filler
RECURSIVE PadStart(_, _, _)
PadStart(s, width, c) ==
    IF Len(s) >= width THEN s ELSE PadStart(<<c>> \o s, width, c)


(***************************************************************************)
(* Inputs.                                                                 *)
(***************************************************************************)
\* what getFormattedDate() returns on the day of the run
Today == <<"2","0","2","4","0","1","0","1">>

\* files a user may offer: [name, heic] for ones the dropzone accepts
FileA == [name |-> "a.jpg", heic |-> FALSE]
FileB == [name |-> "b.heic", heic |-> TRUE]
FileC == [name |-> "c.png", heic |-> FALSE]
AcceptableFiles == <<FileA, FileB, FileC>>

\* rejections as react-dropzone reports them: [file, code]
Rejections ==
    { [file |-> "big.jpg", code |-> "file-too-large"],
      [file |-> "doc.pdf", code |-> "file-invalid-type"] }

\* the accepted part of a drop: the first n acceptable files
AcceptedInputs == { SubSeq(AcceptableFiles, 1, n) : n \in 0..MaxAccepted }

\* a drop of one file more than onDrop lets through
OversizedInputs == { [k \in 1..(MAX_FILES + 1) |-> FileA] }

RECURSIVE SeqsUpTo(_, _)
SeqsUpTo(S, n) ==
    IF n = 0 THEN { <<>> }
    ELSE SeqsUpTo(S, n - 1)
         \cup { Append(q, x) : q \in { r \in SeqsUpTo(S, n - 1) : Len(r) = n - 1 },
                               x \in S }

RejectedInputs == SeqsUpTo(Rejections, MaxRejected)

\* values typed into the settings form (non-digits are stripped by onChange)
SubmissionIdInputs == { <<>>, <<"1","2","3","4","5">> }
DateInputs == { Today, <<"2","0","2","4">> }
StartSequenceInputs ==
    { <<>>, <<"0">>, <<"1">>, <<"7">>, <<"1","2","3">>, String(TwoPow53) }
IndustryCodeInputs ==
    { INITIAL_INDUSTRY_CODES[k] : k \in 1..MaxCodeChoice }

\* img.width and img.height of the images resizeWithPadding loads
SourceWidths ==
    { w \in { RESIZE_WIDTH * m + d :
                 m \in 0..MaxScale, d \in (0 - MaxOffset)..MaxOffset } : w > 0 }
SourceHeights ==
    { h \in { RESIZE_HEIGHT * m + d :
                 m \in 0..MaxScale, d \in (0 - MaxOffset)..MaxOffset } : h > 0 }

(***************************************************************************)
(* State.                                                                  *)
(***************************************************************************)
VARIABLES
    screen,             \* useState('initializing')
    isDownloadCompleted,
    images,             \* the session's image collection
    loadingProgress,    \* [progress, total]
    processingProgress, \* [progress, total]
    zipBlob,            \* NULL or the generated archive, a sequence of entries
    zipFilename,
    errors,             \* the visible error list
    bulkSettings,
    timers,             \* pending setTimeout(() => setErrors([]), 8000)
    objectUrls,         \* blob URLs created and not revoked
    saved,              \* what window.saveAs has been handed
    ingestCount,        \* runs of handleFilesAccepted so far
    ingest,             \* the running handleFilesAccepted: its locals
    proc,               \* the running handleProcess: its locals
    ingestLog,          \* per file of the current ingestion, what happened
    procLog,            \* per item of the current processing run, what happened
    cleared,            \* a timer or a dismissal emptied errors since the batch began
    canvas,             \* a call of resizeWithPadding: its locals
    thumb,              \* a call of createThumbnail: its locals
    pendingLogs         \* addDoc calls of handleDownload not yet settled

vars == << screen, isDownloadCompleted, images, loadingProgress,
           processingProgress, zipBlob, zipFilename, errors, bulkSettings,
           timers, objectUrls, saved, ingestCount, ingest, proc, ingestLog,
           procLog, cleared, canvas, thumb, pendingLogs >>

DefaultBulkSettings ==
    [ industryCode |-> <<>>, submissionId |-> <<>>, date |-> Today,
      quality |-> DEFAULT_QUALITY, startSequence |-> <<"1">> ]

Idle == [ pc |-> "idle" ]

Init ==
    /\ screen = "initializing"
    /\ isDownloadCompleted = FALSE
    /\ images = <<>>
    /\ loadingProgress = [progress |-> 0, total |-> 0]
    /\ processingProgress = [progress |-> 0, total |-> 0]
    /\ zipBlob = NULL
    /\ zipFilename = <<>>
    /\ errors = <<>>
    /\ bulkSettings = DefaultBulkSettings
    /\ timers = 0
    /\ objectUrls = {}
    /\ saved = <<>>
    /\ ingestCount = 0
    /\ ingest = Idle
    /\ proc = Idle
    /\ ingestLog = <<>>
    /\ procLog = <<>>
    /\ cleared = FALSE
    /\ canvas = [pc |-> "idle"]
    /\ thumb = [pc |-> "idle"]
    /\ pendingLogs = 0

(***************************************************************************)
(* Error list.                                                             *)
(***************************************************************************)
\* handleFileErrors: replace the list and arm an expiry timer.  As a guard of
\* the action that calls it: room for one more pending timer.
CanReport == timers < MaxTimers

handleFileErrors(newErrors) ==
    /\ errors' = newErrors
    /\ timers' = timers + 1

\* the timer callback: setErrors([])
TimerFires ==
    /\ timers > 0
    /\ timers' = timers - 1
    /\ errors' = <<>>
    /\ cleared' = TRUE
    /\ UNCHANGED << canvas, thumb, pendingLogs, screen, isDownloadCompleted, images, loadingProgress,
                    processingProgress, zipBlob, zipFilename, bulkSettings,
                    objectUrls, saved, ingestCount, ingest, proc, ingestLog,
                    procLog >>

\* Alert onDismiss: setErrors(prev => prev.filter((_, i) => i !== index))
DismissAlert(index) ==
    /\ index \in 1..Len(errors)
    /\ errors' = [k \in 1..(Len(errors) - 1) |->
                    IF k < index THEN errors[k] ELSE errors[k + 1]]
    /\ cleared' = TRUE
    /\ UNCHANGED << canvas, thumb, pendingLogs, screen, isDownloadCompleted, images, loadingProgress,
                    processingProgress, zipBlob, zipFilename, bulkSettings,
                    timers, objectUrls, saved, ingestCount, ingest, proc,
                    ingestLog, procLog >>

(***************************************************************************)
(* Start-up.                                                               *)
(***************************************************************************)
\* the effect that runs once the three libraries are loaded
LibrariesLoaded ==
    /\ screen = "initializing"
    /\ screen' = "upload"
    /\ UNCHANGED << canvas, thumb, pendingLogs, isDownloadCompleted, images, loadingProgress,
                    processingProgress, zipBlob, zipFilename, errors,
                    bulkSettings, timers, objectUrls, saved, ingestCount,
                    ingest, proc, ingestLog, procLog, cleared >>

(***************************************************************************)
(* Upload screen: UploadScreen.onDrop and handleFilesAccepted.             *)
(***************************************************************************)
TooMany == [text |-> "max-50-files", file |-> ""]
TooLarge(name) == [text |-> "file-too-large", file |-> name]
InvalidType(name) == [text |-> "file-invalid-type", file |-> name]
IngestFailed(name) == [text |-> "ingest-error", file |-> name]
ProcessFailed(name) == [text |-> "process-error", file |-> name]

\* the messages onDrop collects for a drop, in order
RejectionErrors(fileRejections) ==
    [k \in 1..Len(fileRejections) |->
        IF fileRejections[k].code = "file-too-large"
        THEN TooLarge(fileRejections[k].file)
        ELSE InvalidType(fileRejections[k].file)]

\* the messages of a drop handler without the check of the file count
currentErrors_NoLimit(acceptedFiles, fileRejections) ==
    RejectionErrors(fileRejections)

currentErrors(acceptedFiles, fileRejections) ==
    (IF Len(acceptedFiles) + Len(fileRejections) > MAX_FILES
     THEN <<TooMany>> ELSE <<>>)
    \o RejectionErrors(fileRejections)

\* the synchronous head of handleFilesAccepted, up to its first await
handleFilesAcceptedStart(files) ==
    /\ screen' = "loading"
    /\ errors' = <<>>
    /\ loadingProgress' = [progress |-> 0, total |-> Len(files)]
    /\ ingest' = [pc |-> "loop", files |-> files, index |-> 0,
                  newImages |-> <<>>]
    /\ ingestCount' = ingestCount + 1
    /\ ingestLog' = <<>>
    /\ cleared' = FALSE
    /\ UNCHANGED << timers >>

onDrop(acceptedFiles, fileRejections) ==
    /\ screen = "upload"
    /\ ingestCount < MaxIngests
    /\ LET errs == currentErrors(acceptedFiles, fileRejections)
       IN  IF Len(errs) > 0
           THEN /\ CanReport
                /\ handleFileErrors(errs)
                /\ UNCHANGED << screen, loadingProgress, ingest, ingestCount,
                                ingestLog, cleared >>
           ELSE IF Len(acceptedFiles) > 0
           THEN handleFilesAcceptedStart(acceptedFiles)
           ELSE UNCHANGED << screen, errors, loadingProgress, ingest,
                             ingestCount, ingestLog, cleared, timers >>
    /\ UNCHANGED << canvas, thumb, pendingLogs, isDownloadCompleted, images, processingProgress, zipBlob,
                    zipFilename, bulkSettings, objectUrls, saved, proc,
                    procLog >>

\* the image handleFilesAccepted pushes for the k-th file of ingestion n
NewImage(file, n, k) ==
    [ id |-> <<file.name, n, k>>,
      file |-> file.name,
      originalUrl |-> <<n, k>>,
      thumbnailUrl |-> <<"data:image/jpeg", n, k>>,
      industryCode |-> <<>>,
      submissionId |-> <<>>,
      date |-> <<>>,
      quality |-> DEFAULT_QUALITY ]

\* an iteration whose catch branch does not drop the file that failed
IngestItem_KeepFailed(outcome) ==
    /\ ingest.pc = "loop"
    /\ ingest.index < Len(ingest.files)
    /\ LET k == ingest.index + 1
           file == ingest.files[k]
           img == NewImage(file, ingestCount, k)
           pushed == Append(ingest.newImages, img)
           last == k = Len(ingest.files)
       IN  /\ outcome = "convertFail" => file.heic
           /\ objectUrls' = IF outcome = "convertFail" THEN objectUrls
                            ELSE objectUrls \cup { img.originalUrl }
           /\ IF outcome = "ok"
              THEN UNCHANGED << errors, timers >>
              ELSE CanReport /\ handleFileErrors(<<IngestFailed(file.name)>>)
           /\ loadingProgress' =
                  [loadingProgress EXCEPT !.progress = @ + 1]
           /\ ingestLog' = Append(ingestLog,
                               [file |-> file.name, outcome |-> outcome])
           /\ IF last
              THEN /\ images' = pushed
                   /\ screen' = "bulk-settings"
                   /\ ingest' = Idle
              ELSE /\ ingest' = [ingest EXCEPT !.index = k,
                                               !.newImages = pushed]
                   /\ UNCHANGED << images, screen >>
    /\ UNCHANGED << canvas, thumb, pendingLogs, isDownloadCompleted, processingProgress, zipBlob,
                    zipFilename, bulkSettings, saved, ingestCount, proc,
                    procLog, cleared >>

\* One iteration of the loop of handleFilesAccepted, from the await that
\* settles to the next one; after the last file the handler runs to its end.
\*   "ok"          both awaits resolved
\*   "convertFail" heic2any rejected (before any URL was created)
\*   "thumbFail"   createThumbnail rejected (after URL.createObjectURL)
IngestItem(outcome) ==
    /\ ingest.pc = "loop"
    /\ ingest.index < Len(ingest.files)
    /\ LET k == ingest.index + 1
           file == ingest.files[k]
           img == NewImage(file, ingestCount, k)
           pushed == IF outcome = "ok" THEN Append(ingest.newImages, img)
                     ELSE ingest.newImages
           last == k = Len(ingest.files)
       IN  /\ outcome = "convertFail" => file.heic
           /\ objectUrls' = IF outcome = "convertFail" THEN objectUrls
                            ELSE objectUrls \cup { img.originalUrl }
           /\ IF outcome = "ok"
              THEN UNCHANGED << errors, timers >>
              ELSE CanReport /\ handleFileErrors(<<IngestFailed(file.name)>>)
           /\ loadingProgress' =
                  [loadingProgress EXCEPT !.progress = @ + 1]
           /\ ingestLog' = Append(ingestLog,
                               [file |-> file.name, outcome |-> outcome])
           /\ IF last
              THEN /\ images' = pushed
                   /\ screen' = "bulk-settings"
                   /\ ingest' = Idle
              ELSE /\ ingest' = [ingest EXCEPT !.index = k,
                                               !.newImages = pushed]
                   /\ UNCHANGED << images, screen >>
    /\ UNCHANGED << canvas, thumb, pendingLogs, isDownloadCompleted, processingProgress, zipBlob,
                    zipFilename, bulkSettings, saved, ingestCount, proc,
                    procLog, cleared >>

(***************************************************************************)
(* Settings screen.                                                        *)
(***************************************************************************)
SetBulkField(field, value) ==
    /\ screen = "bulk-settings"
    /\ bulkSettings' = [bulkSettings EXCEPT ![field] = value]
    /\ UNCHANGED << canvas, thumb, pendingLogs, screen, isDownloadCompleted, images, loadingProgress,
                    processingProgress, zipBlob, zipFilename, errors, timers,
                    objectUrls, saved, ingestCount, ingest, proc, ingestLog,
                    procLog, cleared >>

\* a Next button that is never disabled
isNextDisabled_Never == FALSE

isNextDisabled ==
    \/ bulkSettings.industryCode = <<>>
    \/ ~AllDigits(bulkSettings.submissionId)
    \/ ~EightDigits(bulkSettings.date)
    \/ ~AllDigits(bulkSettings.startSequence)

handleBulkSettingsNext ==
    /\ screen = "bulk-settings"
    /\ ~isNextDisabled
    /\ images' = [k \in 1..Len(images) |->
                    [images[k] EXCEPT
                        !.industryCode = bulkSettings.industryCode,
                        !.submissionId = bulkSettings.submissionId,
                        !.date = bulkSettings.date,
                        !.quality = bulkSettings.quality]]
    /\ screen' = "confirm-edit"
    /\ UNCHANGED << canvas, thumb, pendingLogs, isDownloadCompleted, loadingProgress, processingProgress,
                    zipBlob, zipFilename, errors, bulkSettings, timers,
                    objectUrls, saved, ingestCount, ingest, proc, ingestLog,
                    procLog, cleared >>

\* a restart that keeps the archive and the completed flag of the batch
handleRestart_KeepsArchive ==
    /\ objectUrls' = objectUrls \ { images[k].originalUrl : k \in 1..Len(images) }
    /\ images' = <<>>
    /\ errors' = <<>>
    /\ bulkSettings' = DefaultBulkSettings
    /\ screen' = "upload"
    /\ ingestLog' = <<>>
    /\ procLog' = <<>>
    /\ cleared' = FALSE
    /\ UNCHANGED << canvas, thumb, pendingLogs, loadingProgress,
                    processingProgress, timers, saved, ingestCount, ingest,
                    proc, zipBlob, zipFilename, isDownloadCompleted >>

\* handleRestart: the body shared by the two buttons that call it
handleRestart ==
    /\ objectUrls' = objectUrls \ { images[k].originalUrl : k \in 1..Len(images) }
    /\ images' = <<>>
    /\ zipBlob' = NULL
    /\ zipFilename' = <<>>
    /\ errors' = <<>>
    /\ bulkSettings' = DefaultBulkSettings
    /\ isDownloadCompleted' = FALSE
    /\ screen' = "upload"
    /\ ingestLog' = <<>>
    /\ procLog' = <<>>
    /\ cleared' = FALSE
    /\ UNCHANGED << canvas, thumb, pendingLogs, loadingProgress, processingProgress, timers, saved,
                    ingestCount, ingest, proc >>

\* a restart button that is also offered while files are being read
BulkSettingsBack_WhileLoading ==
    /\ screen \in {"bulk-settings", "loading"}
    /\ handleRestart

\* BulkSettingsScreen onBack={handleRestart}
BulkSettingsBack ==
    /\ screen = "bulk-settings"
    /\ handleRestart

(***************************************************************************)
(* Confirm screen and handleProcess.                                       *)
(***************************************************************************)
\* buttons that stay on the page whatever screen is shown
ConfirmButtonsShown_AnyScreen == Len(images) > 0

\* the buttons of ConfirmEditScreen are rendered only with a selected image,
\* and the effect selects images[0] as soon as there is one
ConfirmButtonsShown == screen = "confirm-edit" /\ Len(images) > 0

\* a back button that returns to the upload screen without a reset
ConfirmBack_ToUpload ==
    /\ ConfirmButtonsShown
    /\ screen' = "upload"
    /\ UNCHANGED << canvas, thumb, pendingLogs, isDownloadCompleted, images, loadingProgress,
                    processingProgress, zipBlob, zipFilename, errors,
                    bulkSettings, timers, objectUrls, saved, ingestCount,
                    ingest, proc, ingestLog, procLog, cleared >>

\* onBack={() => setScreen('bulk-settings')}
ConfirmBack ==
    /\ ConfirmButtonsShown
    /\ screen' = "bulk-settings"
    /\ UNCHANGED << canvas, thumb, pendingLogs, isDownloadCompleted, images, loadingProgress,
                    processingProgress, zipBlob, zipFilename, errors,
                    bulkSettings, timers, objectUrls, saved, ingestCount,
                    ingest, proc, ingestLog, procLog, cleared >>

\* parseInt(bulkSettings.startSequence, 10) || 1
startSequenceNumber(settings) == OrOne(ParseInt(settings.startSequence))

\* String(i + startSequenceNumber).padStart(2, '0')
sequence(i, start) == PadStart(String(JsAdd(i, start)), PAD_WIDTH, "0")

\* `${industryCode}_${submissionId}_${date}_${sequence}.jpg`
newFilename(image, i, start) ==
    image.industryCode \o <<"_">> \o image.submissionId \o <<"_">>
    \o image.date \o <<"_">> \o sequence(i, start) \o <<".","j","p","g">>

\* a preview that numbers the items from one instead of from zero
generateNewFilename_OneBased(image, imgs, settings) ==
    LET idx == CHOOSE k \in 1..Len(imgs) : imgs[k].id = image.id
    IN  image.industryCode \o <<"_">> \o image.submissionId \o <<"_">>
        \o image.date \o <<"_">>
        \o PadStart(String(JsAdd(idx, startSequenceNumber(settings))),
                    PAD_WIDTH, "0")
        \o <<".","j","p","g">>

\* ConfirmEditScreen.generateNewFilename over the displayed collection
generateNewFilename(image, imgs, settings) ==
    LET idx == (CHOOSE k \in 1..Len(imgs) : imgs[k].id = image.id) - 1
    IN  image.industryCode \o <<"_">> \o image.submissionId \o <<"_">>
        \o image.date \o <<"_">>
        \o PadStart(String(JsAdd(idx, startSequenceNumber(settings))),
                    PAD_WIDTH, "0")
        \o <<".","j","p","g">>

\* zip.file(name, data): JSZip keys its entries by name, so a second entry of
\* the same name replaces the first; data that is null is stored as an empty file
ZipFile(zip, name, data) ==
    LET entry == [name |-> name, data |-> data]
    IN  IF \E k \in 1..Len(zip) : zip[k].name = name
        THEN [k \in 1..Len(zip) |->
                 IF zip[k].name = name THEN entry ELSE zip[k]]
        ELSE Append(zip, entry)

\* what canvas.toBlob hands to its callback
JpegBlob(image) == [type |-> "image/jpeg", of |-> image.id, quality |-> image.quality]
EmptyData == [type |-> "empty", of |-> <<>>, quality |-> 0]

\* a head of handleProcess that walks the collection from its end
handleProcessStart_Reversed ==
    /\ ConfirmButtonsShown
    /\ screen' = "processing"
    /\ processingProgress' = [progress |-> 0, total |-> Len(images)]
    /\ proc' = [pc |-> "loop",
                images |-> [k \in 1..Len(images) |-> images[Len(images) + 1 - k]],
                i |-> 0, zip |-> <<>>,
                startSequenceNumber |-> startSequenceNumber(bulkSettings)]
    /\ procLog' = <<>>
    /\ cleared' = FALSE
    /\ UNCHANGED << canvas, thumb, pendingLogs, isDownloadCompleted, images, loadingProgress, zipBlob,
                    zipFilename, errors, bulkSettings, timers, objectUrls,
                    saved, ingestCount, ingest, ingestLog >>

\* the synchronous head of handleProcess, up to the first await
handleProcessStart ==
    /\ ConfirmButtonsShown
    /\ screen' = "processing"
    /\ processingProgress' = [progress |-> 0, total |-> Len(images)]
    /\ proc' = [pc |-> "loop", images |-> images, i |-> 0, zip |-> <<>>,
                startSequenceNumber |-> startSequenceNumber(bulkSettings)]
    /\ procLog' = <<>>
    /\ cleared' = FALSE
    /\ UNCHANGED << canvas, thumb, pendingLogs, isDownloadCompleted, images, loadingProgress, zipBlob,
                    zipFilename, errors, bulkSettings, timers, objectUrls,
                    saved, ingestCount, ingest, ingestLog >>

\* One iteration of the loop of handleProcess.
\*   "ok"         resize resolved and toBlob delivered a blob
\*   "decodeFail" resizeWithPadding rejected (img.onerror)
\*   "encodeNull" toBlob called back with null
ProcessItem(outcome) ==
    /\ proc.pc = "loop"
    /\ proc.i < Len(proc.images)
    /\ LET image == proc.images[proc.i + 1]
           name == newFilename(image, proc.i, proc.startSequenceNumber)
           data == IF outcome = "ok" THEN JpegBlob(image) ELSE EmptyData
       IN  /\ IF outcome = "decodeFail"
              THEN /\ CanReport
                   /\ handleFileErrors(<<ProcessFailed(image.file)>>)
                   /\ proc' = [proc EXCEPT !.i = @ + 1]
                   /\ procLog' = Append(procLog,
                                    [file |-> image.file, outcome |-> outcome,
                                     name |-> <<>>])
              ELSE /\ proc' = [proc EXCEPT !.i = @ + 1,
                                           !.zip = ZipFile(@, name, data)]
                   /\ procLog' = Append(procLog,
                                    [file |-> image.file, outcome |-> outcome,
                                     name |-> name])
                   /\ UNCHANGED << errors, timers >>
    /\ processingProgress' = [processingProgress EXCEPT !.progress = @ + 1]
    /\ UNCHANGED << canvas, thumb, pendingLogs, screen, isDownloadCompleted, images, loadingProgress,
                    zipBlob, zipFilename, bulkSettings, objectUrls, saved,
                    ingestCount, ingest, ingestLog, cleared >>

\* an archive always saved under the generic name
archiveName_Fixed(imgs) ==
    <<"p","r","o","c","e","s","s","e","d","_","i","m","a","g","e","s",
      ".","z","i","p">>

\* `${firstImage.industryCode}_${firstImage.submissionId}.zip`
archiveName(imgs) ==
    IF Len(imgs) > 0
    THEN imgs[1].industryCode \o <<"_">> \o imgs[1].submissionId
         \o <<".","z","i","p">>
    ELSE <<"p","r","o","c","e","s","s","e","d","_","i","m","a","g","e","s",
           ".","z","i","p">>

\* zip.generateAsync resolved: the tail of handleProcess
ZipGenerated ==
    /\ proc.pc = "loop"
    /\ proc.i = Len(proc.images)
    /\ zipBlob' = [type |-> "blob", files |-> proc.zip]
    /\ zipFilename' = archiveName(proc.images)
    /\ screen' = "download"
    /\ proc' = [pc |-> "done"]
    /\ UNCHANGED << canvas, thumb, pendingLogs, isDownloadCompleted, images, loadingProgress,
                    processingProgress, errors, bulkSettings, timers,
                    objectUrls, saved, ingestCount, ingest, ingestLog,
                    procLog, cleared >>

\* zip.generateAsync rejected: the await throws out of handleProcess, which
\* has no handler around it; nothing after the await runs
ZipGenerateFailed ==
    /\ proc.pc = "loop"
    /\ proc.i = Len(proc.images)
    /\ proc' = [pc |-> "threw"]
    /\ UNCHANGED << canvas, thumb, pendingLogs, screen, isDownloadCompleted, images, loadingProgress,
                    processingProgress, zipBlob, zipFilename, errors,
                    bulkSettings, timers, objectUrls, saved, ingestCount,
                    ingest, ingestLog, procLog, cleared >>

(***************************************************************************)
(* Download screen.                                                        *)
(***************************************************************************)
\* DownloadScreen.handleDownload, then App.handleDownload up to its await;
\* processingStartTime is set on every way to the download screen, so the
\* log is sent whenever the switches allow it
handleDownload ==
    /\ screen = "download"
    /\ pendingLogs < MaxPendingLogs
    /\ IF zipBlob # NULL
       THEN /\ saved' = <<[blob |-> zipBlob, name |-> zipFilename]>>
            /\ isDownloadCompleted' = TRUE
            /\ pendingLogs' = IF isLogSendingEnabled /\ ~isDevMode
                              THEN pendingLogs + 1 ELSE pendingLogs
       ELSE UNCHANGED << saved, isDownloadCompleted, pendingLogs >>
    /\ UNCHANGED << canvas, thumb, screen, images, loadingProgress,
                    processingProgress, zipBlob, zipFilename, errors,
                    bulkSettings, timers, objectUrls, ingestCount, ingest,
                    proc, ingestLog, procLog, cleared >>

\* await addDoc(...) resolves: console.log, nothing else
AddDocResolved ==
    /\ pendingLogs > 0
    /\ pendingLogs' = pendingLogs - 1
    /\ UNCHANGED << canvas, thumb, screen, isDownloadCompleted, images,
                    loadingProgress, processingProgress, zipBlob,
                    zipFilename, errors, bulkSettings, timers, objectUrls,
                    saved, ingestCount, ingest, proc, ingestLog, procLog,
                    cleared >>

\* a rejection that is reported like a processing failure and sends the
\* user back to the confirm screen
AddDocRejected_Surfaced ==
    /\ pendingLogs > 0
    /\ pendingLogs' = pendingLogs - 1
    /\ screen' = "confirm-edit"
    /\ isDownloadCompleted' = FALSE
    /\ UNCHANGED << canvas, thumb, images, loadingProgress,
                    processingProgress, zipBlob, zipFilename, errors,
                    bulkSettings, timers, objectUrls, saved, ingestCount,
                    ingest, proc, ingestLog, procLog, cleared >>

\* await addDoc(...) rejects: the catch block of handleDownload,
\* console.error, nothing else
AddDocRejected ==
    /\ pendingLogs > 0
    /\ pendingLogs' = pendingLogs - 1
    /\ UNCHANGED << canvas, thumb, screen, isDownloadCompleted, images,
                    loadingProgress, processingProgress, zipBlob,
                    zipFilename, errors, bulkSettings, timers, objectUrls,
                    saved, ingestCount, ingest, proc, ingestLog, procLog,
                    cleared >>

\* DownloadScreen onRestart={handleRestart}
DownloadRestart ==
    /\ screen = "download"
    /\ handleRestart

(***************************************************************************)
(* resizeWithPadding.  Canvas sizes are integers.  The Numbers of the      *)
(* final placement (imgAspect, drawWidth, drawHeight, x, y) are kept as    *)
(* exact fractions [num, den] in lowest terms with den > 0: the doubles    *)
(* the code computes are these values rounded, each operation with a       *)
(* relative error of at most 2^-53.                                        *)
(***************************************************************************)
RECURSIVE Gcd(_, _)
Gcd(a, b) == IF b = 0 THEN a ELSE Gcd(b, a % b)

Abs(n) == IF n < 0 THEN 0 - n ELSE n

\* the Number num / den
Rat(num, den) ==
    LET g == Gcd(Abs(num), den)
    IN  [num |-> num \div g, den |-> den \div g]

Whole(n) == [num |-> n, den |-> 1]

RatAdd(a, b) ==
    LET l == (a.den \div Gcd(a.den, b.den)) * b.den
    IN  Rat(a.num * (l \div a.den) + b.num * (l \div b.den), l)

RatSub(a, b) == RatAdd(a, [num |-> 0 - b.num, den |-> b.den])

RatMul(a, b) ==
    LET g1 == Gcd(Abs(a.num), b.den)
        g2 == Gcd(Abs(b.num), a.den)
    IN  Rat((a.num \div g1) * (b.num \div g2), (a.den \div g2) * (b.den \div g1))

\* a / b for b > 0
RatDiv(a, b) == RatMul(a, [num |-> b.den, den |-> b.num])

RatLess(a, b) == a.num * b.den < b.num * a.den

RatLeq(a, b) == a.num * b.den <= b.num * a.den

\* the loop goes round once more: currentCanvas.width > targetWidth * 2, and
\* the break on nextWidth < targetWidth || nextHeight < targetHeight is not taken
CanHalve_WidthOnly(width, height, targetWidth, targetHeight) ==
    width > targetWidth * 2

CanHalve(width, height, targetWidth, targetHeight) ==
    /\ width > targetWidth * 2
    /\ ~(width \div 2 < targetWidth \/ height \div 2 < targetHeight)

\* imgAspect > targetAspect
FitToWidth_Swapped(imgAspect, targetAspect) == RatLess(imgAspect, targetAspect)

FitToWidth(imgAspect, targetAspect) == RatLess(targetAspect, imgAspect)

\* img.onload up to the loop: the first canvas has the size of the image
ImageLoaded(w, h, targetWidth, targetHeight) ==
    [ pc |-> "loop", targetWidth |-> targetWidth, targetHeight |-> targetHeight,
      srcWidth |-> w, srcHeight |-> h, width |-> w, height |-> h,
      prevWidth |-> w, prevHeight |-> h, halvings |-> 0 ]

\* img.onload fires on the image created by new Image()
onload(w, h) ==
    /\ canvas.pc = "created"
    /\ canvas' = ImageLoaded(w, h, canvas.targetWidth, canvas.targetHeight)
    /\ UNCHANGED << thumb, pendingLogs,
                    screen, isDownloadCompleted, images, loadingProgress,
                    processingProgress, zipBlob, zipFilename, errors,
                    bulkSettings, timers, objectUrls, saved, ingestCount,
                    ingest, proc, ingestLog, procLog, cleared >>

\* one round of the while loop: nextCanvas takes the place of currentCanvas
Halve ==
    /\ canvas.pc = "loop"
    /\ CanHalve(canvas.width, canvas.height,
                canvas.targetWidth, canvas.targetHeight)
    /\ canvas' = [canvas EXCEPT !.width = canvas.width \div 2,
                                !.height = canvas.height \div 2,
                                !.prevWidth = canvas.width,
                                !.prevHeight = canvas.height,
                                !.halvings = @ + 1]
    /\ UNCHANGED << thumb, pendingLogs,
                    screen, isDownloadCompleted, images, loadingProgress,
                    processingProgress, zipBlob, zipFilename, errors,
                    bulkSettings, timers, objectUrls, saved, ingestCount,
                    ingest, proc, ingestLog, procLog, cleared >>

\* a placement that fits the same way but starts at the top left corner
Placement_TopLeft(width, height, targetWidth, targetHeight) ==
    LET imgAspect == Rat(width, height)
        targetAspect == Rat(targetWidth, targetHeight)
    IN  IF FitToWidth(imgAspect, targetAspect)
        THEN [ drawWidth |-> Whole(targetWidth),
               drawHeight |-> RatDiv(Whole(targetWidth), imgAspect),
               x |-> Whole(0), y |-> Whole(0) ]
        ELSE [ drawWidth |-> RatMul(Whole(targetHeight), imgAspect),
               drawHeight |-> Whole(targetHeight),
               x |-> Whole(0), y |-> Whole(0) ]

\* the rectangle of the final drawImage call
Placement(width, height, targetWidth, targetHeight) ==
    LET imgAspect == Rat(width, height)
        targetAspect == Rat(targetWidth, targetHeight)
    IN  IF FitToWidth(imgAspect, targetAspect)
        THEN LET drawWidth == Whole(targetWidth)
                 drawHeight == RatDiv(Whole(targetWidth), imgAspect)
             IN  [ drawWidth |-> drawWidth, drawHeight |-> drawHeight,
                   x |-> Whole(0),
                   y |-> RatDiv(RatSub(Whole(targetHeight), drawHeight),
                                Whole(2)) ]
        ELSE LET drawHeight == Whole(targetHeight)
                 drawWidth == RatMul(Whole(targetHeight), imgAspect)
             IN  [ drawWidth |-> drawWidth, drawHeight |-> drawHeight,
                   y |-> Whole(0),
                   x |-> RatDiv(RatSub(Whole(targetWidth), drawWidth),
                                Whole(2)) ]

\* the loop is left: its condition is false, or the break is taken
LoopExit ==
    /\ canvas.pc = "loop"
    /\ ~CanHalve(canvas.width, canvas.height,
                 canvas.targetWidth, canvas.targetHeight)
    /\ canvas' = [canvas EXCEPT !.pc = "fit"]
    /\ UNCHANGED << thumb, pendingLogs,
                    screen, isDownloadCompleted, images, loadingProgress,
                    processingProgress, zipBlob, zipFilename, errors,
                    bulkSettings, timers, objectUrls, saved, ingestCount,
                    ingest, proc, ingestLog, procLog, cleared >>

\* the current canvas is drawn onto the white target canvas
Draw ==
    /\ canvas.pc = "fit"
    /\ LET r == Placement(canvas.width, canvas.height,
                          canvas.targetWidth, canvas.targetHeight)
       IN  canvas' = [ pc |-> "drawn",
                       targetWidth |-> canvas.targetWidth,
                       targetHeight |-> canvas.targetHeight,
                       srcWidth |-> canvas.srcWidth,
                       srcHeight |-> canvas.srcHeight,
                       width |-> canvas.width, height |-> canvas.height,
                       prevWidth |-> canvas.prevWidth,
                       prevHeight |-> canvas.prevHeight,
                       halvings |-> canvas.halvings,
                       drawWidth |-> r.drawWidth, drawHeight |-> r.drawHeight,
                       x |-> r.x, y |-> r.y ]
    /\ UNCHANGED << thumb, pendingLogs,
                    screen, isDownloadCompleted, images, loadingProgress,
                    processingProgress, zipBlob, zipFilename, errors,
                    bulkSettings, timers, objectUrls, saved, ingestCount,
                    ingest, proc, ingestLog, procLog, cleared >>

(***************************************************************************)
(* createThumbnail: the scaled edge is computed in double precision, as    *)
(* edge * (MAX_DIMENSION / longer), and the canvas attribute keeps its     *)
(* integer part.  A double is a sequence of 53 bits, the most significant  *)
(* first and equal to 1, with the number of binary places behind it.       *)
(***************************************************************************)
MAX_DIMENSION == 200
MantissaBits == 53

\* the doublings of rem that bring 2 * rem up to den (rem < den)
RECURSIVE LeadingZeros(_, _, _)
LeadingZeros(rem, den, e) ==
    IF 2 * rem >= den THEN [rem |-> rem, zeros |-> e]
    ELSE LeadingZeros(2 * rem, den, e + 1)

\* n more binary digits of rem / den, by long division
RECURSIVE DivBits(_, _, _, _)
DivBits(rem, den, n, acc) ==
    IF n = 0 THEN [bits |-> acc, rem |-> rem]
    ELSE LET d == IF 2 * rem >= den THEN 1 ELSE 0
         IN  DivBits(2 * rem - d * den, den, n - 1, Append(acc, d))

\* bits + 1, with the carry out of the top bit
RECURSIVE Increment(_, _)
Increment(bits, i) ==
    IF i = 0 THEN [bits |-> bits, carry |-> 1]
    ELSE IF bits[i] = 0
         THEN [bits |-> [bits EXCEPT ![i] = 1], carry |-> 0]
         ELSE Increment([bits EXCEPT ![i] = 0], i - 1)

RECURSIVE AnyOne(_, _)
AnyOne(bits, i) ==
    IF i > Len(bits) THEN FALSE
    ELSE IF bits[i] = 1 THEN TRUE ELSE AnyOne(bits, i + 1)

\* round-to-nearest, ties-to-even, of a bit sequence (leading bit 1) that
\* is followed by a non-zero tail exactly when sticky: the 53 bits kept and
\* the number of low bits dropped
RoundToNearestEven(bits, sticky) ==
    IF Len(bits) <= MantissaBits
    THEN [bits |-> bits, dropped |-> 0]
    ELSE LET kept  == SubSeq(bits, 1, MantissaBits)
             guard == bits[MantissaBits + 1]
             rest  == sticky \/ AnyOne(bits, MantissaBits + 2)
             up    == guard = 1 /\ (rest \/ kept[MantissaBits] = 1)
             inc   == Increment(kept, MantissaBits)
         IN  IF ~up
             THEN [bits |-> kept, dropped |-> Len(bits) - MantissaBits]
             ELSE IF inc.carry = 0
                  THEN [bits |-> inc.bits,
                        dropped |-> Len(bits) - MantissaBits]
                  ELSE [bits |-> <<1>> \o SubSeq(inc.bits, 1, MantissaBits - 1),
                        dropped |-> Len(bits) - MantissaBits + 1]

\* the double nearest to num / den, for 0 < num < den: value is
\* bits * 2^-places
DoubleQuotient(num, den) ==
    LET z == LeadingZeros(num, den, 0)
        d == DivBits(z.rem, den, MantissaBits + 1, << >>)
        r == RoundToNearestEven(d.bits, d.rem # 0)
    IN  [bits |-> r.bits, places |-> z.zeros + MantissaBits + 1 - r.dropped]

RECURSIVE ToBits(_, _)
ToBits(n, acc) ==
    IF n = 0 THEN acc ELSE ToBits(n \div 2, <<n % 2>> \o acc)

\* bits * k for a small positive integer k, from the lowest bit up
RECURSIVE TimesSmall(_, _, _, _, _)
TimesSmall(bits, i, k, carry, acc) ==
    IF i = 0 THEN ToBits(carry, acc)
    ELSE TimesSmall(bits, i - 1, k, (bits[i] * k + carry) \div 2,
                    <<(bits[i] * k + carry) % 2>> \o acc)

\* the double nearest to k * x, for a double x and a positive integer k
DoubleTimes(k, x) ==
    LET p == TimesSmall(x.bits, Len(x.bits), k, 0, << >>)
        r == RoundToNearestEven(p, FALSE)
    IN  [bits |-> r.bits, places |-> x.places - r.dropped]

RECURSIVE BitsToInt(_, _, _)
BitsToInt(bits, n, acc) ==
    IF n = 0 THEN acc
    ELSE BitsToInt(Tail(bits), n - 1, 2 * acc + Head(bits))

\* the integer part of a positive double: what a canvas width or height
\* attribute keeps of the number assigned to it
Truncate(x) ==
    IF x.places >= Len(x.bits) THEN 0
    ELSE BitsToInt(x.bits, Len(x.bits) - x.places, 0)

\* edge *= MAX_DIMENSION / longer, then canvas.<attribute> = edge
ScaledEdge(edge, longer) ==
    Truncate(DoubleTimes(edge, DoubleQuotient(MAX_DIMENSION, longer)))

\* the canvas dimensions createThumbnail gives a width x height raster
createThumbnail(width, height) ==
    IF width > height
    THEN IF width > MAX_DIMENSION
         THEN [width |-> MAX_DIMENSION, height |-> ScaledEdge(height, width)]
         ELSE [width |-> width, height |-> height]
    ELSE IF height > MAX_DIMENSION
         THEN [width |-> ScaledEdge(width, height), height |-> MAX_DIMENSION]
         ELSE [width |-> width, height |-> height]

ThumbSides == 1..MaxThumbSide

\* img.onload of createThumbnail: let { width, height } = img, the
\* dimensions of whatever raster the blob decoded to
thumbOnload ==
    /\ thumb.pc = "created"
    /\ \E w \in ThumbSides, h \in ThumbSides :
           thumb' = [pc |-> "loaded", srcWidth |-> w, srcHeight |-> h]
    /\ UNCHANGED << canvas, pendingLogs,
                    screen, isDownloadCompleted, images, loadingProgress,
                    processingProgress, zipBlob, zipFilename, errors,
                    bulkSettings, timers, objectUrls, saved, ingestCount,
                    ingest, proc, ingestLog, procLog, cleared >>

\* img.onerror = reject
thumbOnerror ==
    /\ thumb.pc = "created"
    /\ thumb' = [pc |-> "rejected"]
    /\ UNCHANGED << canvas, pendingLogs,
                    screen, isDownloadCompleted, images, loadingProgress,
                    processingProgress, zipBlob, zipFilename, errors,
                    bulkSettings, timers, objectUrls, saved, ingestCount,
                    ingest, proc, ingestLog, procLog, cleared >>

\* the canvas is sized, the image drawn and the promise resolved
thumbResolve ==
    /\ thumb.pc = "loaded"
    /\ LET c == createThumbnail(thumb.srcWidth, thumb.srcHeight)
       IN  thumb' = [ pc |-> "resolved",
                      srcWidth |-> thumb.srcWidth,
                      srcHeight |-> thumb.srcHeight,
                      width |-> c.width, height |-> c.height ]
    /\ UNCHANGED << canvas, pendingLogs,
                    screen, isDownloadCompleted, images, loadingProgress,
                    processingProgress, zipBlob, zipFilename, errors,
                    bulkSettings, timers, objectUrls, saved, ingestCount,
                    ingest, proc, ingestLog, procLog, cleared >>

(***************************************************************************)
(* The program.                                                            *)
(***************************************************************************)
UserNext ==
    \/ \E a \in AcceptedInputs \cup OversizedInputs, r \in RejectedInputs :
           onDrop(a, r)
    \/ \E v \in IndustryCodeInputs : SetBulkField("industryCode", v)
    \/ \E v \in SubmissionIdInputs : SetBulkField("submissionId", v)
    \/ \E v \in DateInputs : SetBulkField("date", v)
    \/ \E v \in StartSequenceInputs : SetBulkField("startSequence", v)
    \/ handleBulkSettingsNext
    \/ BulkSettingsBack
    \/ ConfirmBack
    \/ handleProcessStart
    \/ handleDownload
    \/ DownloadRestart
    \/ \E k \in 1..MaxAccepted : DismissAlert(k)

SystemNext ==
    \/ LibrariesLoaded
    \/ \E o \in {"ok", "convertFail", "thumbFail"} : IngestItem(o)
    \/ \E o \in {"ok", "decodeFail", "encodeNull"} : ProcessItem(o)
    \/ ZipGenerated
    \/ ZipGenerateFailed
    \/ TimerFires
    \/ AddDocResolved
    \/ AddDocRejected

Next == UserNext \/ SystemNext

Spec == Init /\ [][Next]_vars

\* One call resizeWithPadding(image, RESIZE_WIDTH, RESIZE_HEIGHT), as
\* handleProcess makes it, on an image that loads with any of the source sizes.
ResizeInit ==
    /\ screen = "processing"
    /\ isDownloadCompleted = FALSE
    /\ images = <<>>
    /\ loadingProgress = [progress |-> 0, total |-> 0]
    /\ processingProgress = [progress |-> 0, total |-> 0]
    /\ zipBlob = NULL
    /\ zipFilename = <<>>
    /\ errors = <<>>
    /\ bulkSettings = DefaultBulkSettings
    /\ timers = 0
    /\ objectUrls = {}
    /\ saved = <<>>
    /\ ingestCount = 0
    /\ ingest = Idle
    /\ proc = Idle
    /\ ingestLog = <<>>
    /\ procLog = <<>>
    /\ cleared = FALSE
    /\ canvas = [ pc |-> "created", targetWidth |-> RESIZE_WIDTH,
                  targetHeight |-> RESIZE_HEIGHT ]
    /\ thumb = [pc |-> "idle"]
    /\ pendingLogs = 0

ResizeNext ==
    \/ \E w \in SourceWidths, h \in SourceHeights : onload(w, h)
    \/ Halve
    \/ LoopExit
    \/ Draw

ResizeSpec == ResizeInit /\ [][ResizeNext]_vars

\* the loop is synchronous code of the onload callback: once the callback
\* runs, nothing else is scheduled before the loop has been left
ResizeLive == ResizeSpec /\ WF_vars(Halve) /\ WF_vars(LoopExit)

\* One call createThumbnail(file) whose blob decodes to any raster of the
\* bounded sizes, or fails to decode.
ThumbInit ==
    /\ screen = "loading"
    /\ isDownloadCompleted = FALSE
    /\ images = << >>
    /\ loadingProgress = [progress |-> 0, total |-> 0]
    /\ processingProgress = [progress |-> 0, total |-> 0]
    /\ zipBlob = NULL
    /\ zipFilename = <<>>
    /\ errors = << >>
    /\ bulkSettings = DefaultBulkSettings
    /\ timers = 0
    /\ objectUrls = {}
    /\ saved = << >>
    /\ ingestCount = 0
    /\ ingest = Idle
    /\ proc = Idle
    /\ ingestLog = << >>
    /\ procLog = << >>
    /\ cleared = FALSE
    /\ canvas = [pc |-> "idle"]
    /\ thumb = [pc |-> "created"]
    /\ pendingLogs = 0

ThumbNext ==
    \/ thumbOnload
    \/ thumbOnerror
    \/ thumbResolve

ThumbSpec == ThumbInit /\ [][ThumbNext]_vars

(***************************************************************************)
(* Vocabulary of the properties.                                           *)
(***************************************************************************)
Range(q) == { q[k] : k \in 1..Len(q) }

\* a processing run has handed its archive over and the wizard shows it
ProcessFinished == screen = "download" /\ proc.pc = "done"

\* indices of the items of the last processing run, by what happened to them
ItemsWith(outcome) == { k \in 1..Len(procLog) : procLog[k].outcome = outcome }

\* the digits between the last "_" and ".jpg" of an entry name of the batch
\* (every item of a batch carries the same code, id and date)
SeqChars(name, image) ==
    LET prefix == Len(image.industryCode) + Len(image.submissionId)
                  + Len(image.date) + 3
    IN  SubSeq(name, prefix + 1, Len(name) - 4)

\* the integer a string of digits denotes, as an exact digit sequence
Denotes(chars) == StripZeros([k \in 1..Len(chars) |-> DigitVal(chars[k])])

(***************************************************************************)
(* C1.  For a batch of N items of which the set F fails to decode in       *)
(* resizeWithPadding, a finished handleProcess leaves an archive of        *)
(* exactly N - |F| entries, one under the name of each non-failing item    *)
(* and none for a failing one, progress N of N, and the screen 'download'. *)
(***************************************************************************)
C1_PartialFailureArchive ==
    ProcessFinished =>
        LET N == Len(images)
            F == ItemsWith("decodeFail")
        IN  /\ Len(procLog) = N
            /\ Len(zipBlob.files) = N - Cardinality(F)
            /\ \A k \in (1..N) \ F :
                   Cardinality({ e \in 1..Len(zipBlob.files) :
                                   zipBlob.files[e].name = procLog[k].name
                                   /\ zipBlob.files[e].data.of \in
                                          { <<>>, images[k].id } }) = 1
            /\ processingProgress = [progress |-> N, total |-> N]

(***************************************************************************)
(* C2.  For every start sequence the form accepts and a batch of N items   *)
(* that all succeed, the sequence numbers in the entry names are exactly   *)
(* offset, offset+1, ..., offset+N-1, offset being the integer entered.    *)
(***************************************************************************)
C2_SequenceNumbersFromOffset ==
    (ProcessFinished /\ ItemsWith("ok") = 1..Len(images)) =>
        LET N == Len(images)
            offset == Denotes(bulkSettings.startSequence)
            used == [e \in 1..Len(zipBlob.files) |->
                        Denotes(SeqChars(zipBlob.files[e].name, images[1]))]
        IN  /\ Len(used) = N
            /\ \A e \in 1..N : used[e] = BigAdd(offset, e - 1)

(***************************************************************************)
(* C3.  A drop that holds rejected files together with valid ones still    *)
(* ingests the valid ones (onFilesAccepted runs with them) and reports the *)
(* rejected ones.                                                          *)
(***************************************************************************)
C3_ValidFilesStillIngested ==
    [][ \A a \in AcceptedInputs, r \in RejectedInputs :
          (Len(a) > 0 /\ Len(r) > 0 /\ onDrop(a, r)) =>
              /\ screen' = "loading"
              /\ ingest'.pc = "loop" /\ ingest'.files = a
      ]_vars

(***************************************************************************)
(* C4.  When zip.generateAsync fails, the wizard leaves 'processing', an   *)
(* error is shown, and no archive is stored.                               *)
(***************************************************************************)
C4_ArchiveFailureRecovers ==
    [][ (proc.pc = "loop" /\ proc'.pc = "threw") =>
            /\ screen' # "processing"
            /\ Len(errors') > 0
            /\ zipBlob' = NULL
      ]_vars

(***************************************************************************)
(* C5.  Every entry written to the archive holds the JPEG bytes of an      *)
(* item whose resize and encode both succeeded; an item whose encode       *)
(* yields no data gets no entry and is reported.                           *)
(***************************************************************************)
C5_OnlyEncodedEntries ==
    proc.pc = "loop" =>
        /\ \A e \in 1..Len(proc.zip) : proc.zip[e].data.type = "image/jpeg"
        /\ \A k \in ItemsWith("encodeNull") :
               \A e \in 1..Len(proc.zip) : proc.zip[e].name # procLog[k].name

(***************************************************************************)
(* C6.  Original statement: once the wizard is up, every change of screen  *)
(* is one of the forward arrows upload -> loading -> bulk-settings ->      *)
(* confirm-edit -> processing -> download or the reset download -> upload; *)
(* nothing goes backwards along an arrow.                                  *)
(***************************************************************************)
ForwardArrows ==
    { <<"upload", "loading">>, <<"loading", "bulk-settings">>,
      <<"bulk-settings", "confirm-edit">>, <<"confirm-edit", "processing">>,
      <<"processing", "download">> }

ResetArrow == <<"download", "upload">>

C6_OneWayTransitions ==
    [][ (screen # "initializing" /\ screen' # screen) =>
            <<screen, screen'>> \in ForwardArrows \cup { ResetArrow }
      ]_vars

(***************************************************************************)
(* C6, amended.  Every change of screen is a forward arrow, the reset      *)
(* download -> upload, the start-up step initializing -> upload, or one of *)
(* the two back buttons confirm-edit -> bulk-settings and bulk-settings -> *)
(* upload; the changes out of 'initializing', 'loading' and 'processing'   *)
(* happen without user action, and every other change is a user action.    *)
(***************************************************************************)
BackArrows ==
    { <<"confirm-edit", "bulk-settings">>, <<"bulk-settings", "upload">> }

AutomaticScreens == { "initializing", "loading", "processing" }

C6_TransitionsWithBackButtons ==
    [][ screen' # screen =>
            /\ <<screen, screen'>> \in
                   ForwardArrows
                   \cup { ResetArrow, <<"initializing", "upload">> }
                   \cup BackArrows
            /\ (screen \in AutomaticScreens) <=> ~UserNext
            /\ (screen \in AutomaticScreens) <=> SystemNext
      ]_vars

\* the settings screen showing items that already carry a confirmed code:
\* the wizard came back from the confirm screen
C6_Witness ==
    /\ screen = "bulk-settings"
    /\ Len(images) > 0
    /\ images[1].industryCode # <<>>

(***************************************************************************)
(* C7.  The step download -> upload of handleRestart resets the session:   *)
(* no images, their object URLs revoked, no archive and no archive name,   *)
(* default settings, no errors, and both progress counters zero.           *)
(***************************************************************************)
C7_RestartResetsEverything ==
    [][ (screen = "download" /\ screen' = "upload") =>
            /\ images' = <<>>
            /\ \A k \in 1..Len(images) : images[k].originalUrl \notin objectUrls'
            /\ zipBlob' = NULL
            /\ zipFilename' = <<>>
            /\ bulkSettings' = DefaultBulkSettings
            /\ errors' = <<>>
            /\ loadingProgress' = [progress |-> 0, total |-> 0]
            /\ processingProgress' = [progress |-> 0, total |-> 0]
      ]_vars

(***************************************************************************)
(* C8.  When k items fail during one ingestion or processing batch, then   *)
(* right after the loop (no timer has fired, nothing was dismissed) the    *)
(* error list holds a message for each of the k failed items.              *)
(***************************************************************************)
C8_AllFailuresListed ==
    /\ (screen = "bulk-settings" /\ ~cleared) =>
           \A k \in 1..Len(ingestLog) :
               ingestLog[k].outcome # "ok" =>
                   IngestFailed(ingestLog[k].file) \in Range(errors)
    /\ (screen \in {"processing", "download"} /\ ~cleared
        /\ Len(procLog) = processingProgress.total) =>
           \A k \in ItemsWith("decodeFail") :
               ProcessFailed(procLog[k].file) \in Range(errors)

(***************************************************************************)
(* C9.  Every file name handleProcess produces is                          *)
(* industryCode_submissionId_date_seq.jpg, seq being the decimal sequence  *)
(* number padded with zeros on the left to at least two characters and     *)
(* never truncated; hos / 12345 / 20240101 with start sequence 1 names the *)
(* first item hos_12345_20240101_01.jpg.                                   *)
(***************************************************************************)
Max(a, b) == IF a >= b THEN a ELSE b

\* seq is the decimal numeral of n, zero-padded on the left to width >= 2
IsPaddedNumeral(seq, n) ==
    /\ Len(seq) = Max(2, Len(n))
    /\ \A j \in 1..Len(seq) :
           LET pad == Len(seq) - Len(n)
           IN  seq[j] = IF j <= pad THEN "0" ELSE DigitChars[n[j - pad] + 1]

ProducedNames == { procLog[k].name : k \in (1..Len(procLog)) \ ItemsWith("decodeFail") }

Archive ==
    IF proc.pc = "loop" THEN proc.zip
    ELSE IF zipBlob # NULL THEN zipBlob.files ELSE <<>>

SpecExampleSettings ==
    [ industryCode |-> <<"h","o","s">>,
      submissionId |-> <<"1","2","3","4","5">>,
      date |-> <<"2","0","2","4","0","1","0","1">>,
      quality |-> DEFAULT_QUALITY,
      startSequence |-> <<"1">> ]

SpecExampleName ==
    <<"h","o","s","_","1","2","3","4","5","_",
      "2","0","2","4","0","1","0","1","_","0","1",".","j","p","g">>

C10_OrdinalsFixedByPosition ==
    screen \in {"processing", "download"} =>
        LET offset == startSequenceNumber(bulkSettings)
            written == (1..Len(procLog)) \ ItemsWith("decodeFail")
            number(k) == Denotes(SeqChars(procLog[k].name, images[k]))
        IN  /\ \A k \in written : number(k) = BigAdd(offset, k - 1)
            /\ \A j, k \in written : j < k => BigLess(number(j), number(k))

(***************************************************************************)
(* C11.  The items of one batch are written under pairwise distinct names, *)
(* so no entry of the archive replaces another: the archive holds one      *)
(* entry per item written.                                                 *)
(***************************************************************************)
C11_EntryNamesDistinct ==
    screen \in {"processing", "download"} =>
        LET written == (1..Len(procLog)) \ ItemsWith("decodeFail")
        IN  /\ \A j, k \in written :
                   j # k => procLog[j].name # procLog[k].name
            /\ proc.pc # "threw" => Len(Archive) = Cardinality(written)

(***************************************************************************)
(* C12.  The step that ends an ingestion of N files, of which the set F    *)
(* failed conversion or thumbnail decoding, leaves exactly the N - |F|     *)
(* other files in the collection in their original order and the counter   *)
(* at N of N, goes to 'bulk-settings', and is not a user action; the       *)
(* 'loading' screen is never left in another way and never outlives the    *)
(* loop.                                                                   *)
(***************************************************************************)
IngestedOk(entry) == entry.outcome = "ok"

Files(q) == [k \in 1..Len(q) |-> q[k].file]

C12_IngestKeepsNonFailing ==
    /\ [](screen = "loading" =>
              /\ ingest.pc = "loop"
              /\ ingest.index < Len(ingest.files)
              /\ loadingProgress =
                     [progress |-> ingest.index, total |-> Len(ingest.files)])
    /\ [][ (screen = "loading" /\ screen' # screen) =>
               LET N == Len(ingest.files)
                   F == { k \in 1..N : ingestLog'[k].outcome # "ok" }
               IN  /\ screen' = "bulk-settings"
                   /\ ~UserNext
                   /\ Len(ingestLog') = N
                   /\ \A k \in 1..N : ingestLog'[k].file = ingest.files[k].name
                   /\ Len(images') = N - Cardinality(F)
                   /\ Files(images') = Files(SelectSeq(ingestLog', IngestedOk))
                   /\ loadingProgress' = [progress |-> N, total |-> N]
         ]_vars

\* two files read, the first one failed and only the second one is kept
C12_Witness ==
    /\ screen = "bulk-settings"
    /\ Len(ingestLog) = 2
    /\ ingestLog[1].outcome # "ok"
    /\ ingestLog[2].outcome = "ok"
    /\ Len(images) = 1
    /\ images[1].file = ingestLog[2].file
    /\ loadingProgress = [progress |-> 2, total |-> 2]

(***************************************************************************)
(* C13.  An ingestion and a processing run are never in flight together,   *)
(* and while one of them is in flight no user action starts an ingestion   *)
(* or a processing run, the bulk settings do not change, and the image     *)
(* collection changes only in the step that ends the ingestion.            *)
(***************************************************************************)
InFlight == ingest.pc = "loop" \/ proc.pc = "loop"

C13_OneOperationInFlight ==
    /\ [](~(ingest.pc = "loop" /\ proc.pc = "loop"))
    /\ [][ InFlight =>
               /\ UserNext => (ingest' = ingest /\ proc' = proc)
               /\ ~handleProcessStart
               /\ ~(\E a \in AcceptedInputs :
                        handleFilesAcceptedStart(a))
               /\ bulkSettings' = bulkSettings
               /\ images' # images =>
                      (ingest.pc = "loop" /\ ingest' = Idle /\ ~UserNext)
         ]_vars

\* a processing run between its first and its last item
C13_Witness ==
    /\ proc.pc = "loop"
    /\ proc.i >= 1
    /\ proc.i < Len(proc.images)
    /\ screen = "processing"

(***************************************************************************)
(* C14.  A user step that performs handleRestart leaves the                *)
(* 'bulk-settings' or the 'download' screen, never 'loading' or            *)
(* 'processing'; a batch loop runs only under 'loading' (ingestion) or     *)
(* 'processing', so no reset falls into a running loop.                    *)
(***************************************************************************)
C14_RestartOnlyBetweenBatches ==
    /\ [](ingest.pc = "loop" => screen = "loading")
    /\ [](proc.pc = "loop" => screen = "processing")
    /\ [][ (UserNext /\ handleRestart) =>
               /\ screen \in {"bulk-settings", "download"}
               /\ ~InFlight
         ]_vars

\* the upload screen after a reset that followed an ingestion
C14_Witness ==
    /\ screen = "upload"
    /\ ingestCount >= 1
    /\ images = <<>>
    /\ loadingProgress.total >= 1
    /\ ~InFlight

(***************************************************************************)
(* C15.  handleProcess walks the collection captured at its start, one     *)
(* item per step and in order: the k-th item handled is the k-th image,    *)
(* each step handles exactly the next item (archive insertion or failure   *)
(* handling included), and the counter after item i (from 0) is i + 1.     *)
(***************************************************************************)
C15_SequentialInOrder ==
    /\ [](proc.pc = "loop" =>
              /\ proc.images = images
              /\ Len(procLog) = proc.i
              /\ processingProgress =
                     [progress |-> proc.i, total |-> Len(images)]
              /\ \A k \in 1..Len(procLog) : procLog[k].file = images[k].file)
    /\ [][ (proc.pc = "loop" /\ procLog' # procLog) =>
               /\ Len(procLog') = Len(procLog) + 1
               /\ SubSeq(procLog', 1, Len(procLog)) = procLog
               /\ procLog'[Len(procLog')].file = images[proc.i + 1].file
               /\ proc'.i = proc.i + 1
               /\ processingProgress'.progress = proc.i + 1
               /\ Len(proc'.zip) <= Len(proc.zip) + 1
         ]_vars

\* the second item handled after the first one failed
C15_Witness ==
    /\ proc.pc = "loop"
    /\ proc.i = 2
    /\ procLog[1].outcome = "decodeFail"
    /\ procLog[2].outcome = "ok"
    /\ procLog[2].file = images[2].file
    /\ images[1].file # images[2].file

(***************************************************************************)
(* C16.  A finished handleProcess names the archive                        *)
(* industryCode_submissionId.zip after the first item of the batch, also   *)
(* when that item failed; for an empty batch the name is                   *)
(* processed_images.zip.                                                   *)
(***************************************************************************)
C16_ArchiveNameFromFirstItem ==
    /\ ProcessFinished =>
           zipFilename = images[1].industryCode \o <<"_">>
                         \o images[1].submissionId \o <<".","z","i","p">>
    /\ archiveName(<<>>) =
           <<"p","r","o","c","e","s","s","e","d","_","i","m","a","g","e","s",
             ".","z","i","p">>

\* an archive named after a first item that has no entry in it
C16_Witness ==
    /\ ProcessFinished
    /\ procLog[1].outcome = "decodeFail"
    /\ zipFilename = <<"h","o","s","_","1","2","3","4","5",".","z","i","p">>

(***************************************************************************)
(* C17.  No step of resizeWithPadding scales a side down to less than half *)
(* of the step's input (a halving step may lose the odd pixel to floor):   *)
(* in particular twice the final drawn width is at least the width of the  *)
(* last intermediate canvas, and likewise for the height.                  *)
(***************************************************************************)
C17_NoStepBelowHalf ==
    /\ (canvas.pc \in {"loop", "fit", "drawn"} /\ canvas.halvings > 0) =>
           /\ 2 * canvas.width + 1 >= canvas.prevWidth
           /\ 2 * canvas.height + 1 >= canvas.prevHeight
    /\ canvas.pc = "drawn" =>
           /\ RatLeq(Whole(canvas.width), RatMul(Whole(2), canvas.drawWidth))
           /\ RatLeq(Whole(canvas.height), RatMul(Whole(2), canvas.drawHeight))

(***************************************************************************)
(* C18.  The rectangle of the final draw lies inside the target canvas:    *)
(* 0 <= x, 0 <= y, drawWidth <= targetWidth, drawHeight <= targetHeight,   *)
(* x + drawWidth <= targetWidth and y + drawHeight <= targetHeight.        *)
(***************************************************************************)
C18_DrawnInsideTarget ==
    canvas.pc = "drawn" =>
        /\ RatLeq(Whole(0), canvas.x)
        /\ RatLeq(Whole(0), canvas.y)
        /\ RatLeq(canvas.drawWidth, Whole(canvas.targetWidth))
        /\ RatLeq(canvas.drawHeight, Whole(canvas.targetHeight))
        /\ RatLeq(RatAdd(canvas.x, canvas.drawWidth), Whole(canvas.targetWidth))
        /\ RatLeq(RatAdd(canvas.y, canvas.drawHeight), Whole(canvas.targetHeight))

\* a wide image drawn after a halving, with white bands above and below
C18_Witness ==
    /\ canvas.pc = "drawn"
    /\ canvas.halvings >= 1
    /\ canvas.drawWidth = Whole(canvas.targetWidth)
    /\ RatLess(Whole(0), canvas.y)
    /\ RatLess(canvas.drawHeight, Whole(canvas.targetHeight))

(***************************************************************************)
(* C19.  Original statement, the source being the image handed to         *)
(* resizeWithPadding: when the aspect of the source is above the target's, *)
(* the drawn rectangle has the full target width and x = 0; otherwise it   *)
(* has the full target height and y = 0; on the other axis the margins     *)
(* before and after the rectangle differ by at most 1 pixel.               *)
(***************************************************************************)
Within1(a, b) ==
    /\ RatLeq(RatSub(a, b), Whole(1))
    /\ RatLeq(RatSub(b, a), Whole(1))

C19_FlushAndCentred ==
    canvas.pc = "drawn" =>
        LET after_x == RatSub(Whole(canvas.targetWidth),
                              RatAdd(canvas.x, canvas.drawWidth))
            after_y == RatSub(Whole(canvas.targetHeight),
                              RatAdd(canvas.y, canvas.drawHeight))
        IN  IF canvas.srcWidth * canvas.targetHeight
                   > canvas.srcHeight * canvas.targetWidth
            THEN /\ canvas.drawWidth = Whole(canvas.targetWidth)
                 /\ canvas.x = Whole(0)
                 /\ Within1(canvas.y, after_y)
            ELSE /\ canvas.drawHeight = Whole(canvas.targetHeight)
                 /\ canvas.y = Whole(0)
                 /\ Within1(canvas.x, after_x)

(***************************************************************************)
(* C19, amended.  The axis is chosen by the aspect of the canvas that is   *)
(* drawn, the one the halving loop left: when that aspect is above the     *)
(* target's the rectangle has the full target width and x = 0, otherwise   *)
(* the full target height and y = 0; the margins on the other axis differ  *)
(* by at most 1 pixel.  The aspect of the original image lies on the same  *)
(* side of the target's whenever no halving took place.                    *)
(***************************************************************************)
C19_FlushByDrawnAspect ==
    canvas.pc = "drawn" =>
        LET after_x == RatSub(Whole(canvas.targetWidth),
                              RatAdd(canvas.x, canvas.drawWidth))
            after_y == RatSub(Whole(canvas.targetHeight),
                              RatAdd(canvas.y, canvas.drawHeight))
            drawnWide == canvas.width * canvas.targetHeight
                             > canvas.height * canvas.targetWidth
            sourceWide == canvas.srcWidth * canvas.targetHeight
                              > canvas.srcHeight * canvas.targetWidth
        IN  /\ IF drawnWide
               THEN /\ canvas.drawWidth = Whole(canvas.targetWidth)
                    /\ canvas.x = Whole(0)
                    /\ Within1(canvas.y, after_y)
               ELSE /\ canvas.drawHeight = Whole(canvas.targetHeight)
                    /\ canvas.y = Whole(0)
                    /\ Within1(canvas.x, after_x)
            /\ canvas.halvings = 0 => (drawnWide <=> sourceWide)

\* an image narrower than the target whose halved canvas is wider than it,
\* drawn over the full width with bands above and below
C19_Witness ==
    /\ canvas.pc = "drawn"
    /\ canvas.srcWidth * canvas.targetHeight
           < canvas.srcHeight * canvas.targetWidth
    /\ canvas.width * canvas.targetHeight
           > canvas.height * canvas.targetWidth
    /\ canvas.drawWidth = Whole(canvas.targetWidth)
    /\ RatLess(Whole(0), canvas.y)
    /\ canvas.y = RatSub(Whole(canvas.targetHeight),
                         RatAdd(canvas.y, canvas.drawHeight))

(***************************************************************************)
(* C20.  Every canvas a halving step produces is at least as wide and as   *)
(* high as the target and has the floor of half the width and of half the  *)
(* height of the canvas before it, and the loop of every call is left.     *)
(***************************************************************************)
C20_HalvingNeverUndershoots ==
    /\ []((canvas.pc \in {"loop", "fit", "drawn"} /\ canvas.halvings > 0) =>
              /\ canvas.width >= canvas.targetWidth
              /\ canvas.height >= canvas.targetHeight
              /\ canvas.width = canvas.prevWidth \div 2
              /\ canvas.height = canvas.prevHeight \div 2)
    /\ (canvas.pc = "loop") ~> (canvas.pc = "fit")

\* a canvas halved twice, the second time from an odd width
C20_Witness ==
    /\ canvas.pc = "drawn"
    /\ canvas.halvings = 2
    /\ canvas.prevWidth % 2 = 1
    /\ canvas.width >= canvas.targetWidth
    /\ canvas.height >= canvas.targetHeight

(***************************************************************************)
(* C21.  createThumbnail gives every raster a canvas whose longer edge is  *)
(* at most 200 px, that has the dimensions of the raster when its longer   *)
(* edge is at most 200 px already, and whose shorter edge is otherwise a   *)
(* rounding of the edge the raster's aspect ratio asks for: less than one  *)
(* pixel away from 200 * shorter / longer.                                 *)
(***************************************************************************)
C21_ThumbnailBound ==
    thumb.pc = "resolved" =>
        LET longer  == Max(thumb.srcWidth, thumb.srcHeight)
            shorter == IF thumb.srcWidth > thumb.srcHeight
                       THEN thumb.srcHeight ELSE thumb.srcWidth
            scaled  == IF thumb.srcWidth > thumb.srcHeight
                       THEN thumb.height ELSE thumb.width
        IN  /\ Max(thumb.width, thumb.height) <= MAX_DIMENSION
            /\ longer <= MAX_DIMENSION =>
                   /\ thumb.width = thumb.srcWidth
                   /\ thumb.height = thumb.srcHeight
            /\ longer > MAX_DIMENSION =>
                   /\ Max(thumb.width, thumb.height) = MAX_DIMENSION
                   /\ (scaled - 1) * longer < MAX_DIMENSION * shorter
                   /\ MAX_DIMENSION * shorter < (scaled + 1) * longer

(***************************************************************************)
(* C22.  Both edges of the canvas createThumbnail produces are at least    *)
(* 1 px, whatever the aspect ratio of the raster.                          *)
(***************************************************************************)
C22_EdgesAtLeastOne ==
    thumb.pc = "resolved" => (thumb.width >= 1 /\ thumb.height >= 1)

(***************************************************************************)
(* C23.  A rejected telemetry write of handleDownload changes nothing of   *)
(* the pipeline: the screen, the image collection, zipBlob, zipFilename,   *)
(* the error list, the settings and the progress of ingestion and          *)
(* processing are as before, and the download handed to saveAs and the     *)
(* completed flag are kept.                                                *)
(***************************************************************************)
C23_TelemetryFailureIsSilent ==
    [][AddDocRejected =>
           UNCHANGED << screen, images, zipBlob, zipFilename, errors, saved,
                        isDownloadCompleted, bulkSettings, ingest, proc,
                        ingestLog, procLog, loadingProgress,
                        processingProgress >>]_vars

\* the archive was saved and every telemetry write of the session has
\* settled, on the download screen with the download marked as completed
C23_Witness ==
    /\ screen = "download"
    /\ isDownloadCompleted
    /\ saved # << >>
    /\ pendingLogs = 0

(***************************************************************************)
(* C24.  Items come out of ingestion with an empty industryCode,           *)
(* submissionId and date and keep them until the bulk settings are         *)
(* confirmed: the collection changes only by a reset, by a finished        *)
(* ingestion that installs items with empty fields, or by                  *)
(* handleBulkSettingsNext, which gives every item the industryCode,        *)
(* submissionId, date and quality of the bulk settings of that moment.     *)
(* So on the confirm screen, where processing starts, and while the batch  *)
(* is processed, every item has a non-empty industryCode, an all-digit     *)
(* non-empty submissionId and an 8-digit date.                             *)
(***************************************************************************)
C24_FieldsFromBulkSettings ==
    /\ [](\A k \in 1..Len(images) :
              \/ /\ images[k].industryCode = << >>
                 /\ images[k].submissionId = << >>
                 /\ images[k].date = << >>
                 /\ screen \in {"loading", "bulk-settings"}
              \/ /\ images[k].industryCode # << >>
                 /\ AllDigits(images[k].submissionId)
                 /\ EightDigits(images[k].date))
    /\ []((screen \in {"confirm-edit", "processing"}) =>
              \A k \in 1..Len(images) : images[k].industryCode # << >>)
    /\ []((proc.pc = "loop") =>
              \A k \in 1..Len(proc.images) :
                  /\ proc.images[k].industryCode # << >>
                  /\ AllDigits(proc.images[k].submissionId)
                  /\ EightDigits(proc.images[k].date))
    /\ [][ \/ images' = images
           \/ images' = << >>
           \/ /\ ingest.pc = "loop"
              /\ \A k \in 1..Len(images') :
                     /\ images'[k].industryCode = << >>
                     /\ images'[k].submissionId = << >>
                     /\ images'[k].date = << >>
           \/ /\ screen = "bulk-settings"
              /\ screen' = "confirm-edit"
              /\ Len(images') = Len(images)
              /\ \A k \in 1..Len(images') :
                     /\ images'[k].industryCode = bulkSettings.industryCode
                     /\ images'[k].submissionId = bulkSettings.submissionId
                     /\ images'[k].date = bulkSettings.date
                     /\ images'[k].quality = bulkSettings.quality
                     /\ images'[k].id = images[k].id ]_vars

\* a batch is being processed whose items carry the industry code, the
\* five-digit submission id and the date of the bulk settings
C24_Witness ==
    /\ screen = "processing"
    /\ Len(images) >= 1
    /\ \A k \in 1..Len(images) :
           /\ images[k].submissionId = bulkSettings.submissionId
           /\ images[k].industryCode = bulkSettings.industryCode
           /\ images[k].date = bulkSettings.date
    /\ Len(bulkSettings.submissionId) >= 2

(***************************************************************************)
(* C25.  The image collection never holds more than 50 items, no           *)
(* ingestion runs over more than 50 files, and a drop whose accepted and   *)
(* rejected files number more than 50 starts no ingestion: the screen,     *)
(* the collection and the ingestion state are as before it.                *)
(***************************************************************************)
C25_AtMostFiftyItems ==
    /\ [](Len(images) <= MAX_FILES)
    /\ []((ingest.pc = "loop") =>
              /\ Len(ingest.files) <= MAX_FILES
              /\ Len(ingest.newImages) <= MAX_FILES)
    /\ [][\A a \in AcceptedInputs \cup OversizedInputs, r \in RejectedInputs :
              (onDrop(a, r) /\ Len(a) + Len(r) > MAX_FILES) =>
                  UNCHANGED << screen, images, ingest, ingestCount,
                               loadingProgress >>]_vars

\* after a drop of 51 files: still on the upload screen, with the message
\* about the limit shown and nothing ingested
C25_Witness ==
    /\ screen = "upload"
    /\ TooMany \in Range(errors)
    /\ ingest.pc = "idle"
    /\ images = << >>

(***************************************************************************)
(* C26.  From the end of an ingestion on, every object URL that was        *)
(* created and not yet revoked is the originalUrl of exactly one item of   *)
(* the image collection, and once the session is reset (no batch, upload   *)
(* screen) no created URL is left unrevoked.                               *)
(***************************************************************************)
C26_UrlsOwnedAndRevoked ==
    /\ (ingest.pc # "loop") =>
           \A u \in objectUrls :
               Cardinality({ k \in 1..Len(images) :
                                images[k].originalUrl = u }) = 1
    /\ (screen \in {"initializing", "upload"}) => objectUrls = {}

(***************************************************************************)
(* C27.  The wizard has no dead end: on the upload, bulk-settings,         *)
(* confirm-edit and download screens some action of the user is enabled    *)
(* that changes the screen (on the upload screen: as long as the session   *)
(* has drops left).                                                        *)
(***************************************************************************)
C27_NoDeadEnd ==
    (/\ screen \in {"upload", "bulk-settings", "confirm-edit", "download"}
     /\ screen = "upload" => ingestCount < MaxIngests)
        => ENABLED (UserNext /\ screen' # screen)

(***************************************************************************)
(* C28.  While a batch is processed, every name under which handleProcess  *)
(* has written an item into the archive is the name generateNewFilename    *)
(* previews for that item on the confirm screen the processing was         *)
(* started from, whatever the start sequence.                              *)
(***************************************************************************)
C28_PreviewIsWrittenName ==
    (screen = "processing") =>
        /\ Len(procLog) <= Len(images)
        /\ \A k \in 1..Len(procLog) :
               procLog[k].outcome # "decodeFail" =>
                   procLog[k].name
                       = generateNewFilename(images[k], images, bulkSettings)

\* two items written with a start sequence of 7: the second one as ..._08.jpg
C28_Witness ==
    /\ screen = "processing"
    /\ bulkSettings.startSequence = <<"7">>
    /\ Len(procLog) = 2
    /\ procLog[1].outcome = "ok"
    /\ procLog[2].outcome = "ok"
    /\ SubSeq(procLog[2].name, Len(procLog[2].name) - 5,
              Len(procLog[2].name) - 4) = <<"0", "8">>
    /\ procLog[2].name = generateNewFilename(images[2], images, bulkSettings)

(***************************************************************************)
(* C29.  The expiry timer of an earlier report never clears the errors of  *)
(* a later report: the timers run for the same 8 seconds and fire in the   *)
(* order they were armed, so a timer that fires while a later one is still *)
(* pending belongs to an earlier report and leaves the error list as it    *)
(* is.                                                                     *)
(***************************************************************************)
C29_EarlierTimerSparesLaterError ==
    [][(TimerFires /\ timers > 1) => errors' = errors]_vars

(***************************************************************************)
(* C30.  On the download screen zipBlob is non-null and zipFilename is     *)
(* non-empty; isDownloadCompleted is true only on the download screen; on  *)
(* every other screen no archive of a previous batch is held, and nothing  *)
(* is handed to saveAs from there.                                         *)
(***************************************************************************)
C30_ArchiveOnlyOnDownload ==
    /\ []((screen = "download") => (zipBlob # NULL /\ zipFilename # << >>))
    /\ [](isDownloadCompleted => screen = "download")
    /\ []((screen # "download") => zipBlob = NULL)
    /\ [][(saved' # saved) =>
              /\ screen = "download"
              /\ saved' = <<[blob |-> zipBlob, name |-> zipFilename]>>]_vars

\* a second batch is on the bulk-settings screen after the archive of the
\* first one was saved: no archive is held and nothing is marked completed
C30_Witness ==
    /\ screen = "bulk-settings"
    /\ saved # << >>
    /\ Len(images) >= 1
    /\ zipBlob = NULL
    /\ ~isDownloadCompleted

=============================================================================
